---- MODULE Spec2Model ----
(***************************************************************************)
(* Model of main.py: the randomuser.me loader.  setup_db creates the three *)
(* tables, get_random_users fetches a list of user records, one COPY loads *)
(* json.dumps(users) into api_results, and two INSERT ... SELECT statements *)
(* derive identities and profiles from api_results inside one transaction. *)
(***************************************************************************)
EXTENDS Integers, Sequences, FiniteSets, TLC

VARIABLES
    tables,       \* the tables that exist (main.py 97-121)
    api_results,  \* committed rows of api_results, in insertion order: each
                  \* row is its data column, a JSON value (97-101)
    identities,   \* committed rows of identities (103-108)
    profiles,     \* committed rows of profiles (110-121)
    pc,           \* where each run or session stands (174-178)
    users,        \* main's local `users` of each run (176)
    resp,         \* the response r.get met in each run (158)
    requests,     \* the GET requests each run has issued (158)
    tx,           \* identity rows each open transaction has inserted and
                  \* not committed (168-171)
    err,          \* the error the last stage of each run raised, "" for none
    normRuns,     \* committed Normalizer calls since api_results last
                  \* changed, counted up to MaxNormRuns (167-171)
    snap          \* per transaction: the number of api_results rows its first
                  \* statement read, then whether its second read more (170-171)

vars == <<tables, api_results, identities, profiles,
          pc, users, resp, requests, tx, err, normRuns, snap>>

\* ---------------------------------------------------------------- bounds
MaxBatch == 2
MaxPre == 2
MaxRows == 3
MaxNormRuns == 2

Procs == {1, 2}

Min(a, b) == IF a < b THEN a ELSE b

Range(s) == {s[i] : i \in 1..Len(s)}

SeqsUpTo(S, n) == UNION {[1..k -> S] : k \in 0..n}

\* ------------------------------------------------------- values (SQL/JSON)
\* Every value is a record [type, val]: SQL NULL, SQL text, SQL timestamp,
\* and the JSON values string, null, object, array.
NULL == [type |-> "NULL", val |-> ""]
Txt(s) == [type |-> "text", val |-> s]
Timestamp(s) == [type |-> "timestamp", val |-> s]
JString(s) == [type |-> "string", val |-> s]
JNull == [type |-> "null", val |-> ""]
JObject(fields) == [type |-> "object", val |-> fields]
JArray(elems) == [type |-> "array", val |-> elems]

\* One element of the "results" array, with the fields of the documented
\* structure that the two SELECTs read.
User(idname, idvalue, username, gender, state, city, dobdate) ==
    JObject([id |-> JObject([name |-> idname, value |-> idvalue]),
             login |-> JObject([username |-> JString(username)]),
             gender |-> JString(gender),
             location |-> JObject([state |-> JString(state),
                                   city |-> JString(city),
                                   postcode |-> JString("93027")]),
             dob |-> JObject([date |-> JString(dobdate)]),
             picture |-> JObject([large |-> JString("https://randomuser.me/api/portraits/men/75.jpg")]),
             cell |-> JString("081-454-0666")])

\* The record of the module docstring.
Brad == User(JString("PPS"), JString("0390511T"), "silverswan131",
             "male", "waterford", "kilcoole", "1993-07-20T09:44:18.674Z")

\* Same id as Brad, another login.
Twin == User(JString("PPS"), JString("0390511T"), "bluefrog42",
             "female", "cork", "kinsale", "1993-07-20T09:44:18.674Z")

\* A login holding a double quote, which json.dumps writes as \" .
Quote == User(JString("SSN"), JString("405-88-3636"), "silver\"swan",
              "male", "waterford", "kilcoole", "1993-07-20T09:44:18.674Z")

\* No id value (JSON null) and a date of birth that is no date.
NoDate == User(JString(""), JNull, "greenbird7",
               "female", "cork", "kinsale", "garbage")

FetchUsers == {Brad, Quote}
PreDocs == {Brad, Twin, NoDate}

\* Strings json.dumps writes with a backslash escape.
BackslashEscaped == {"silver\"swan"}

\* Strings to_timestamp rejects under the pattern of populate_profiles_table.
NotATimestamp == {"garbage"}

\* ------------------------------------------------------------ json operators
\* json -> text key: the field of an object; NULL for anything else.
Arrow(j, key) ==
    IF j.type = "object" /\ key \in DOMAIN j.val THEN j.val[key] ELSE NULL

\* json_out: the text of a json value.  Strings keep their double quotes.
\* (The records modelled hold only strings and null under id and login.)
JsonOut(v) ==
    CASE v.type = "string" -> "\"" \o v.val \o "\""
      [] v.type = "null" -> "null"
      [] v.type = "array" -> "[]"
      [] OTHER -> "{}"

\* json ->> text key: the field as text; a JSON null gives SQL NULL.
ArrowText(j, key) ==
    LET v == Arrow(j, key)
    IN  CASE v.type = "NULL" -> NULL
          [] v.type = "null" -> NULL
          [] v.type = "string" -> Txt(v.val)
          [] OTHER -> Txt(JsonOut(v))

\* CONCAT(a, b) over json arguments: each argument's output text, NULLs
\* skipped; never NULL itself.
CONCAT(a, b) ==
    Txt((IF a.type = "NULL" THEN "" ELSE JsonOut(a))
        \o (IF b.type = "NULL" THEN "" ELSE JsonOut(b)))

\* A json expression stored into a TEXT column: its output text.
AssignText(v) == IF v.type = "NULL" THEN NULL ELSE Txt(JsonOut(v))

\* to_timestamp(text, 'YYYY-MM-DDTHH:MI:SSS.MSZ'): strict in NULL; raises on
\* text the pattern cannot read.
ToTimestampRaises(t) == t.type # "NULL" /\ t.val \in NotATimestamp

to_timestamp(t) == IF t.type = "NULL" THEN NULL ELSE Timestamp(t.val)

\* CONCAT(data->'id'->'name', data->'id'->'value')
DerivedKey(data) ==
    CONCAT(Arrow(Arrow(data, "id"), "name"), Arrow(Arrow(data, "id"), "value"))

\* The SELECT of populate_identities_table over the rows of api_results.
IdentitySelect(rows) ==
    {[id |-> DerivedKey(data),
      username |-> AssignText(Arrow(Arrow(data, "login"), "username"))]
       : data \in Range(rows)}

DobText(data) == ArrowText(Arrow(data, "dob"), "date")

\* The SELECT DISTINCT of populate_profiles_table (distinct whole rows).
ProfileSelect(rows) ==
    {[identity_id |-> DerivedKey(data),
      date_of_birth |-> to_timestamp(DobText(data)),
      gender |-> ArrowText(data, "gender"),
      state |-> ArrowText(Arrow(data, "location"), "state"),
      city |-> ArrowText(Arrow(data, "location"), "city"),
      zip |-> ArrowText(Arrow(data, "location"), "zip"),
      picture_url |-> ArrowText(Arrow(data, "picture"), "large"),
      cell |-> ArrowText(data, "cell")]
       : data \in Range(rows)}

ProfileSelectRaises(rows) ==
    \E data \in Range(rows) : ToTimestampRaises(DobText(data))

IdentityKeys(rows) == {r.id : r \in rows}
ProfileKeys(rows) == {r.identity_id : r \in rows}

\* Mutant: the INSERT without its ON CONFLICT clause: a candidate id that is
\* in the table, or twice among the candidates, raises on the primary key.
IdentitiesNoConflictClause(cands, existing) ==
    IF \/ IdentityKeys(cands) \cap existing # {}
       \/ Cardinality(IdentityKeys(cands)) # Cardinality(cands)
    THEN {[err |-> "unique_violation", rows |-> {}]}
    ELSE {[err |-> "", rows |-> cands]}

\* INSERT INTO identities ... ON CONFLICT (id) DO NOTHING: of the candidate
\* rows whose id is not in the table one row per id is inserted; which one
\* depends on the scan order.  The set of possible outcomes.
IdentitiesOnConflict(cands, existing) ==
    LET fresh == {r \in cands : r.id \notin existing}
    IN  {[err |-> "", rows |-> S] : S \in
           {T \in SUBSET fresh :
              \A k \in IdentityKeys(fresh) :
                 Cardinality({r \in T : r.id = k}) = 1}}

\* Mutant: the INSERT without its ON CONFLICT clause.
ProfilesNoConflictClause(cands, existing) ==
    IF \/ ProfileKeys(cands) \cap existing # {}
       \/ Cardinality(ProfileKeys(cands)) # Cardinality(cands)
    THEN {[err |-> "unique_violation", rows |-> {}]}
    ELSE {[err |-> "", rows |-> cands]}

\* INSERT INTO profiles ... ON CONFLICT (identity_id) DO NOTHING.
ProfilesOnConflict(cands, existing) ==
    LET fresh == {r \in cands : r.identity_id \notin existing}
    IN  {[err |-> "", rows |-> S] : S \in
           {T \in SUBSET fresh :
              \A k \in ProfileKeys(fresh) :
                 Cardinality({r \in T : r.identity_id = k}) = 1}}

\* Mutant: identity_id declared without REFERENCES identities(id).
NoForeignKey(rows, visible) == TRUE

\* identity_id ... REFERENCES identities(id), checked for the inserted rows
\* against the identity rows the transaction sees.
ForeignKeyOk(rows, visible) == ProfileKeys(rows) \subseteq IdentityKeys(visible)

\* ------------------------------------------------------------------ COPY
\* json.dumps(users): the whole list as one JSON array on one line (control
\* characters are escaped, so the text holds no newline and no tab).
json_dumps(list) == JArray(list)

UserStrings(u) ==
    {u.val.login.val.username.val, u.val.gender.val,
     u.val.location.val.state.val, u.val.location.val.city.val}

\* COPY's text format undoes backslash escapes before the json column is
\* parsed: \" becomes a bare quote and the line is no JSON any more.
CopyRaises(list) ==
    \E i \in 1..Len(list) : UserStrings(list[i]) \cap BackslashEscaped # {}

\* Mutant: one line, hence one row, per record of the list.
copy_from_line_per_record(list) ==
    IF CopyRaises(list)
    THEN [err |-> "invalid_json", rows |-> <<>>]
    ELSE [err |-> "", rows |-> list]

\* cursor.copy_from(StringIO(json.dumps(users)), "api_results"): one row per
\* line of the text, the line being the row's data column.
copy_from(list) ==
    IF CopyRaises(list)
    THEN [err |-> "invalid_json", rows |-> <<>>]
    ELSE [err |-> "", rows |-> <<json_dumps(list)>>]

\* Mutant: the load replaces the table's rows.
CopyReplacing(table, rows) == rows

\* COPY adds its rows to the table's rows.
CopyInto(table, rows) == table \o rows

\* Mutant: an autocommit connection: what a statement wrote stays written.
AlwaysCommit(raised, pending) == pending

\* `with psycopg2.connect(...) as conn`: commit when the block ends normally,
\* rollback when it raises.  The pending rows that become committed.
WithConnExit(raised, pending) == IF raised THEN {} ELSE pending

AllTables == {"api_results", "identities", "profiles"}

\* ------------------------------------------------------------- HTTP
\* What r.get(...) can meet: no answer at all, or a status with a body that
\* is no JSON, JSON without "results", or JSON with a "results" list.
Batches == SeqsUpTo(FetchUsers, MaxBatch)

Responses ==
    {[net |-> "error", status |-> 0, body |-> "none", results |-> <<>>]}
    \cup {[net |-> "ok", status |-> st, body |-> b, results |-> <<>>]
            : st \in {200, 500}, b \in {"not_json", "no_results"}}
    \cup {[net |-> "ok", status |-> st, body |-> "results", results |-> b]
            : st \in {200, 500}, b \in Batches}

NoResponse == [net |-> "none", status |-> 0, body |-> "none", results |-> <<>>]

\* r.get(url).json()["results"]: raises ConnectionError, a JSON decode error
\* or KeyError; the status code is not looked at.
GetRaises(rsp) == rsp.net = "error" \/ rsp.body # "results"

\* ---------------------------------------------------------------- stages
\* Each stage is given the place control goes to when it returns (next) and
\* when it raises (fail).

\* setup_db(): the three CREATE TABLE IF NOT EXISTS, committed together.
setup_db(p, from, next) ==
    /\ pc[p] = from
    /\ tables' = tables \cup AllTables
    /\ pc' = [pc EXCEPT ![p] = next]
    /\ err' = [err EXCEPT ![p] = ""]
    /\ UNCHANGED <<api_results, identities, profiles, users, resp, requests,
                   tx, normRuns, snap>>

\* get_random_users(): one GET, then .json()["results"].
get_random_users(p, from, next, fail) ==
    /\ pc[p] = from
    /\ \E rsp \in Responses :
          /\ resp' = [resp EXCEPT ![p] = rsp]
          /\ requests' = [requests EXCEPT ![p] = @ + 1]
          /\ IF GetRaises(rsp)
             THEN /\ pc' = [pc EXCEPT ![p] = fail]
                  /\ err' = [err EXCEPT ![p] = "fetch"]
                  /\ UNCHANGED users
             ELSE /\ pc' = [pc EXCEPT ![p] = next]
                  /\ err' = [err EXCEPT ![p] = ""]
                  /\ users' = [users EXCEPT ![p] = rsp.results]
    /\ UNCHANGED <<tables, api_results, identities, profiles, tx, normRuns, snap>>

\* load_users_into_api_results(list): one COPY, committed on normal exit.
load_users_into_api_results(p, list, from, next, fail) ==
    /\ pc[p] = from
    /\ Len(api_results) < MaxRows
    /\ LET out == IF "api_results" \in tables
                  THEN copy_from(list)
                  ELSE [err |-> "undefined_table", rows |-> <<>>]
       IN  IF out.err # ""
           THEN /\ pc' = [pc EXCEPT ![p] = fail]
                /\ err' = [err EXCEPT ![p] = out.err]
                /\ UNCHANGED <<api_results, normRuns>>
           ELSE /\ pc' = [pc EXCEPT ![p] = next]
                /\ err' = [err EXCEPT ![p] = ""]
                /\ api_results' = CopyInto(api_results, out.rows)
                /\ normRuns' = 0
    /\ UNCHANGED <<tables, identities, profiles, users, resp, requests, tx, snap>>

\* Rows of identities another open transaction has inserted and not yet
\* committed: an insert of the same key waits for that transaction.
PendingElsewhere(p) == UNION {tx[q] : q \in Procs \ {p}}

\* cursor.execute(populate_identities_table): the first statement of the
\* transaction of load_results_into_identities_and_profiles.
populate_identities(p, from, fail) ==
    /\ pc[p] = from
    /\ IF {"api_results", "identities"} \subseteq tables
       THEN LET cands == IdentitySelect(api_results)
            IN  /\ IdentityKeys(cands) \cap IdentityKeys(PendingElsewhere(p)) = {}
                /\ \E out \in IdentitiesOnConflict(cands, IdentityKeys(identities)) :
                      IF out.err # ""
                      THEN /\ pc' = [pc EXCEPT ![p] = fail]
                           /\ err' = [err EXCEPT ![p] = out.err]
                           /\ UNCHANGED <<tx, snap>>
                      ELSE /\ pc' = [pc EXCEPT ![p] = "profiles"]
                           /\ err' = [err EXCEPT ![p] = ""]
                           /\ tx' = [tx EXCEPT ![p] = out.rows]
                           /\ snap' = [snap EXCEPT ![p] = [first |-> Len(api_results), grew |-> FALSE]]
       ELSE /\ pc' = [pc EXCEPT ![p] = fail]
            /\ err' = [err EXCEPT ![p] = "undefined_table"]
            /\ UNCHANGED <<tx, snap>>
    /\ UNCHANGED <<tables, api_results, identities, profiles, users, resp,
                   requests, normRuns>>

\* The outcome of populate_profiles_table for a transaction that sees the
\* identity rows `visible`: the error raised ("" for none) and the rows.
ProfileStatement(rows, visible, existing) ==
    IF ProfileSelectRaises(rows)
    THEN {[err |-> "invalid_timestamp", rows |-> {}]}
    ELSE {IF out.err = "" /\ ~ForeignKeyOk(out.rows, visible)
          THEN [err |-> "foreign_key_violation", rows |-> {}]
          ELSE out
            : out \in ProfilesOnConflict(ProfileSelect(rows), ProfileKeys(existing))}

\* cursor.execute(populate_profiles_table) and the exit of the with block:
\* commit of both statements, or rollback of both.  The foreign-key check of
\* a key that another open transaction has inserted waits for it.  (Nothing
\* another session can see or wait for changes between this statement and
\* the commit, so the two are one step.)
populate_profiles(p, next, fail) ==
    /\ pc[p] = "profiles"
    /\ ProfileSelectRaises(api_results)
          \/ (ProfileKeys(ProfileSelect(api_results)) \ ProfileKeys(profiles))
                \cap IdentityKeys(PendingElsewhere(p)) = {}
    /\ \E out \in ProfileStatement(api_results, identities \cup tx[p], profiles) :
          /\ identities' = identities \cup WithConnExit(out.err # "", tx[p])
          /\ profiles' = profiles \cup WithConnExit(out.err # "", out.rows)
          /\ tx' = [tx EXCEPT ![p] = {}]
          /\ snap' = [snap EXCEPT ![p] = [first |-> 0, grew |-> Len(api_results) > @.first]]
          /\ err' = [err EXCEPT ![p] = out.err]
          /\ IF out.err # ""
             THEN /\ pc' = [pc EXCEPT ![p] = fail]
                  /\ UNCHANGED normRuns
             ELSE /\ pc' = [pc EXCEPT ![p] = next]
                  /\ normRuns' = Min(normRuns + 1, MaxNormRuns)
    /\ UNCHANGED <<tables, api_results, users, resp, requests>>

\* --------------------------------------------------------- specifications
TypeInit ==
    /\ identities = {}
    /\ profiles = {}
    /\ users = [p \in Procs |-> <<>>]
    /\ resp = [p \in Procs |-> NoResponse]
    /\ requests = [p \in Procs |-> 0]
    /\ tx = [p \in Procs |-> {}]
    /\ err = [p \in Procs |-> ""]
    /\ normRuns = 0
    /\ snap = [p \in Procs |-> [first |-> 0, grew |-> FALSE]]

\* Two runs of main() against a database that holds no table yet.
Init ==
    /\ TypeInit
    /\ tables = {}
    /\ api_results = <<>>
    /\ pc = [p \in Procs |-> "setup_db"]

main(p) ==
    \/ setup_db(p, "setup_db", "get_random_users")
    \/ get_random_users(p, "get_random_users", "load_users", "failed")
    \/ load_users_into_api_results(p, users[p], "load_users", "identities", "failed")
    \/ populate_identities(p, "identities", "failed")
    \/ populate_profiles(p, "done", "failed")

Next == \E p \in Procs : main(p)

Spec == Init /\ [][Next]_vars

\* Sessions that call the three database stages in any order, against a
\* database where api_results may already exist and hold user documents.
InitCalls ==
    /\ TypeInit
    /\ \/ tables = {} /\ api_results = <<>>
       \/ tables = {"api_results"} /\ api_results \in SeqsUpTo(PreDocs, MaxPre)
    /\ pc = [p \in Procs |-> "idle"]

calls(p) ==
    \/ setup_db(p, "idle", "idle")
    \/ \E list \in Batches : load_users_into_api_results(p, list, "idle", "idle", "idle")
    \/ populate_identities(p, "idle", "idle")
    \/ populate_profiles(p, "idle", "idle")

\* One session.
NextCalls == calls(1)

SpecCalls == InitCalls /\ [][NextCalls]_vars

\* Two sessions at once.
NextSessions == \E p \in Procs : calls(p)

SpecSessions == InitCalls /\ [][NextSessions]_vars

\* ------------------------------------------------------------ properties
IsPrefix(s, t) == Len(s) <= Len(t) /\ \A i \in 1..Len(s) : s[i] = t[i]

\* No two identity rows share a primary key.
KeyUnique == \A a, b \in identities : a.id = b.id => a = b

\* Every profile row references an identity row.
RefIntegrity == \A r \in profiles : \E i \in identities : i.id = r.identity_id

\* Run 1 of main() has finished and run 2 has not started.
OnlyRun1Done == pc[1] = "done" /\ pc[2] = "setup_db"

\* C1: a full run on empty tables whose fetched batch is the one record with
\* id PPS / 0390511T and login silverswan131 leaves exactly one identity row,
\* with key PPS0390511T and username silverswan131, and exactly one profile
\* row, of that key, with gender male, state waterford and city kilcoole.
C1_EndToEnd ==
    (OnlyRun1Done /\ users[1] = <<Brad>>) =>
        /\ identities = {[id |-> Txt("PPS0390511T"), username |-> Txt("silverswan131")]}
        /\ Cardinality(profiles) = 1
        /\ \A r \in profiles :
              /\ r.identity_id = Txt("PPS0390511T")
              /\ r.gender = Txt("male")
              /\ r.state = Txt("waterford")
              /\ r.city = Txt("kilcoole")

\* C2: a successful Raw Loader call on a list of n records adds exactly n
\* rows to api_results, the i-th added row holding the i-th record.
C2_OneRowPerRecord ==
    [][\A p \in Procs :
          (pc[p] = "load_users" /\ pc'[p] = "identities") =>
              api_results' = api_results \o users[p]]_vars

\* C3: a full run on empty tables whose fetch returned the empty list leaves
\* no row in api_results, identities and profiles.
C3_ZeroRecords ==
    (OnlyRun1Done /\ users[1] = <<>>) =>
        api_results = <<>> /\ identities = {} /\ profiles = {}

C5_ReferentialIntegrity == RefIntegrity

C5_Witness ==
    /\ profiles # {}
    /\ \E p \in Procs : err[p] = "foreign_key_violation"

\* C6: no two identity rows ever share a primary key; no statement raises a
\* uniqueness violation; and after a successful Normalizer every key derived
\* from api_results, also one that several rows with different usernames
\* derive, is the key of exactly one identity row.
C6_IdentityKeyUnique ==
    /\ KeyUnique
    /\ \A p \in Procs : err[p] # "unique_violation"
    /\ normRuns >= 1 =>
          \A k \in IdentityKeys(IdentitySelect(api_results)) :
             Cardinality({i \in identities : i.id = k}) = 1

C6_Witness ==
    /\ normRuns >= 1
    /\ \E a, b \in IdentitySelect(api_results) :
          /\ a.id = b.id
          /\ a.username # b.username
          /\ Cardinality({i \in identities : i.id = a.id}) = 1

\* C7: when the request fails at the network level, answers with a status
\* other than 200, or answers with a body that is no JSON, the Fetcher raises
\* after that one request and the run ends there.
C7_FetchFailureAborts ==
    \A p \in Procs :
       /\ requests[p] <= 1
       /\ (requests[p] = 1 /\ (resp[p].net = "error"
                               \/ resp[p].status # 200
                               \/ resp[p].body = "not_json")) =>
             pc[p] = "failed" /\ err[p] = "fetch"

\* C8: two runs of main() at once: no statement of either run raises a
\* uniqueness or foreign-key violation, under any interleaving of the loads
\* and the Normalizer's statements, and the identity and profile tables keep
\* key uniqueness and referential integrity.
C8_ConcurrentRunsSafe ==
    /\ \A p \in Procs : err[p] \notin {"unique_violation", "foreign_key_violation"}
    /\ KeyUnique
    /\ RefIntegrity
    /\ \A a, b \in profiles : a.identity_id = b.identity_id => a = b

\* Both runs finished, and run 2's load committed between run 1's identity
\* statement and its profile statement.
C8_Witness ==
    /\ pc[1] = "done" /\ pc[2] = "done"
    /\ snap[1].grew
    /\ identities # {} /\ profiles # {}

\* C9: api_results is append-only: every step leaves the committed rows in
\* place and unmodified; a step that adds rows changes neither identities nor
\* profiles; no step of setup_db or of the Normalizer's statements changes
\* api_results.
C9_RawAppendOnly ==
    [][/\ IsPrefix(api_results, api_results')
       /\ api_results' # api_results =>
             identities' = identities /\ profiles' = profiles /\ tx' = tx
       /\ api_results' # api_results =>
             \A p \in Procs :
                ~(\/ setup_db(p, "idle", "idle")
                  \/ populate_identities(p, "idle", "idle")
                  \/ populate_profiles(p, "idle", "idle"))]_vars

C9_Witness ==
    /\ Len(api_results) = MaxRows
    /\ \E i \in 1..Len(api_results) : api_results[i].type = "array"
    /\ api_results[1].type = "object"
    /\ identities # {} /\ profiles # {}

\* C10: each database stage is all-or-nothing.  A Normalizer whose profile
\* statement raises leaves identities and profiles as they were before the
\* call (the identity rows of its first statement are rolled back); one that
\* succeeds commits the rows of both statements together; a call that raises
\* (a failed Raw Loader included) changes no table.
C10_StagesAtomic ==
    [][\A p \in Procs :
          /\ (pc[p] = "profiles" /\ err'[p] # "") =>
                identities' = identities /\ profiles' = profiles /\ tx'[p] = {}
          /\ (pc[p] = "profiles" /\ pc'[p] # "profiles" /\ err'[p] = "") =>
                identities' = identities \cup tx[p] /\ tx'[p] = {}
          /\ (pc[p] = "idle" /\ err'[p] # "" /\ err'[p] # err[p]) =>
                UNCHANGED <<api_results, identities, profiles, tx>>
          /\ pc[p] # "profiles" => tx[p] = {}]_vars

\* The profile statement raised after the identity statement had inserted
\* rows, and none of them is in the table.
C10_Witness ==
    /\ \E p \in Procs : err[p] = "invalid_timestamp"
    /\ tables = AllTables
    /\ IdentitySelect(api_results) # {}
    /\ identities = {}

====
